---- MODULE Spec2Model ----
(***************************************************************************)
(* Economy-7 billing of smart-meter readings (src/main.py).                *)
(*                                                                         *)
(* main() reads the readings, drops negative and duplicate rows, and       *)
(* compute_costs() walks meters x months 1..12 of 2013, selecting the      *)
(* night (23:00-06:00) and day (06:00-23:00) readings of each month and    *)
(* emitting one row per non-empty (meter, month).                          *)
(*                                                                         *)
(* Representation.                                                         *)
(*  - A DataFrame is a sequence of rows; each row carries its index label  *)
(*    in the field idx. read_csv gives the RangeIndex 0..n-1; the          *)
(*    assignment df.index = df['DateTime'] replaces it by a datetime.      *)
(*  - consumption_kwh is an integer count of Wh (1/1000 kWh).              *)
(*  - tariffs are integers in 1/100 pound per kWh (0.15 -> 15).            *)
(*  - a money amount (readings * cost) * 100 is therefore an integer count *)
(*    of 1/100000 pence; np.around(x, decimals=2) rounds it to the nearest *)
(*    multiple of 1000 (0.01 pence), ties to the even multiple.  Binary    *)
(*    floating-point representation error is not modelled.                 *)
(***************************************************************************)
EXTENDS Integers, Sequences, FiniteSets

VARIABLES pc, df, cost_df, meter_id_series, mi, meter_df, month,
          month_readings, night_readings, day_readings, runs, first_out,
          first_df

vars == <<pc, df, cost_df, meter_id_series, mi, meter_df, month,
          month_readings, night_readings, day_readings, runs, first_out,
          first_df>>

(***************************************************************************)
(* Program constants                                                       *)
(***************************************************************************)
ECONOMY == 11
FLAT_RATE == 15
YEAR == 2013
FirstMonth == 1
EndMonth == 13
NightStart == <<23, 0>>
NightEnd == <<6, 0>>
DayStart == <<6, 0>>
DayEnd == <<23, 0>>
NewRowLabel == -1
Decimals == 2
PenceFactor == 100

(***************************************************************************)
(* Bounds of the model                                                     *)
(***************************************************************************)
MaxRows == 3

(***************************************************************************)
(* Timestamps and index labels                                             *)
(***************************************************************************)
DT(y, mo, d, h, mi_) == [year |-> y, month |-> mo, day |-> d, hour |-> h, minute |-> mi_]

NoDT == DT(0, 0, 0, 0, 0)

RangeLabel(i) == [kind |-> "range", pos |-> i, dt |-> NoDT]

DateTimeLabel(d) == [kind |-> "datetime", pos |-> 0, dt |-> d]

Reading(m, d, k) == [meter_id |-> m, DateTime |-> d, consumption_kwh |-> k]

\* The rows a dataset file may hold (before sanitation).
Dataset ==
  { Reading("A", DT(2013, 1, 5, 0, 30), 2000),
    Reading("A", DT(2013, 1, 5, 12, 0), 3000),
    Reading("A", DT(2013, 1, 6, 23, 30), 1000),
    Reading("A", DT(2013, 1, 6, 6, 0), 1),
    Reading("A", DT(2013, 1, 7, 23, 0), 1000),
    Reading("A", DT(2013, 2, 1, 12, 0), 2000),
    Reading("A", DT(2012, 1, 5, 12, 0), 2000),
    Reading("B", DT(2013, 1, 5, 12, 0), 1000),
    Reading("B", DT(2013, 1, 5, 12, 0), -1000),
    Reading("B", DT(2013, 1, 7, 0, 30), 0),
    Reading("B", DT(2013, 2, 1, 23, 0), 3),
    Reading("B", DT(2014, 2, 1, 6, 0), 1000),
    Reading("B", DT(2013, 12, 31, 23, 30), 1) }

Meters == { r.meter_id : r \in Dataset }

\* pd.read_csv: the rows of the file under the default RangeIndex.
read_csv(rows) ==
  [i \in 1..Len(rows) |->
     [idx |-> RangeLabel(i - 1), meter_id |-> rows[i].meter_id,
      DateTime |-> rows[i].DateTime, consumption_kwh |-> rows[i].consumption_kwh]]

Files == UNION { [1..n -> Dataset] : n \in 0..MaxRows }

(***************************************************************************)
(* DataFrame helpers                                                       *)
(***************************************************************************)
\* A boolean mask df[mask] keeps the rows that satisfy it, with their labels
\* and in their order: SelectSeq.

SameColumns(a, b) ==
  /\ a.meter_id = b.meter_id
  /\ a.DateTime = b.DateTime
  /\ a.consumption_kwh = b.consumption_kwh

RECURSIVE SumKwh(_)
SumKwh(d) ==
  IF d = <<>> THEN 0 ELSE Head(d).consumption_kwh + SumKwh(Tail(d))

RECURSIVE unique(_)
\* Series.unique(): the distinct values in order of first appearance.
unique(d) ==
  IF d = <<>> THEN <<>>
  ELSE LET front == unique(SubSeq(d, 1, Len(d) - 1))
           last == d[Len(d)].meter_id
       IN IF \E i \in 1..Len(front) : front[i] = last
          THEN front ELSE Append(front, last)

(***************************************************************************)
(* Filters                                                                 *)
(***************************************************************************)
get_meter_data(d, meter_id) == SelectSeq(d, LAMBDA r : r.meter_id = meter_id)

\* variant: the year filter is left out
get_monthly_readings_any_year(d, year, mo) ==
  SelectSeq(d, LAMBDA r : r.DateTime.month = mo)

get_monthly_readings(d, year, mo) ==
  LET byYear == SelectSeq(d, LAMBDA r : r.DateTime.year = year)
  IN SelectSeq(byYear, LAMBDA r : r.DateTime.month = mo)

\* df.index = df['DateTime']: done on the caller's object.
set_DateTime_index(d) ==
  [i \in 1..Len(d) |-> [d[i] EXCEPT !.idx = DateTimeLabel(d[i].DateTime)]]

\* time of day of an index label, in minutes since midnight
TimeOfDay(label) == label.dt.hour * 60 + label.dt.minute

ParseTime(t) == t[1] * 60 + t[2]

\* variant: the end of the window is excluded
between_time_open_end(d, startTime, endTime) ==
  LET s == ParseTime(startTime)
      e == ParseTime(endTime)
      lop(r) == s <= TimeOfDay(r.idx)
      rop(r) == TimeOfDay(r.idx) < e
  IN IF s <= e
     THEN SelectSeq(d, LAMBDA r : lop(r) /\ rop(r))
     ELSE SelectSeq(d, LAMBDA r : lop(r) \/ rop(r))

\* DataFrame.between_time(start, end), both ends included; the two
\* comparisons are joined by "and" when start <= end and by "or" otherwise.
between_time(d, startTime, endTime) ==
  LET s == ParseTime(startTime)
      e == ParseTime(endTime)
      lop(r) == s <= TimeOfDay(r.idx)
      rop(r) == TimeOfDay(r.idx) <= e
  IN IF s <= e
     THEN SelectSeq(d, LAMBDA r : lop(r) /\ rop(r))
     ELSE SelectSeq(d, LAMBDA r : lop(r) \/ rop(r))

get_time_range_readings(d, startTime, endTime) ==
  between_time(set_DateTime_index(d), startTime, endTime)

(***************************************************************************)
(* Sanitizing functions                                                    *)
(***************************************************************************)
remove_negative_readings(d) == SelectSeq(d, LAMBDA r : r.consumption_kwh >= 0)

\* drop_duplicates(keep='first'): compares the columns, not the index.
remove_duplicates(d) ==
  LET keep == SelectSeq([i \in 1..Len(d) |-> i], LAMBDA i : ~ \E j \in 1..(i - 1) : SameColumns(d[j], d[i]))
  IN [k \in 1..Len(keep) |-> d[keep[k]]]

(***************************************************************************)
(* Computing new values                                                    *)
(***************************************************************************)
\* variant: the amount is left in pounds
compute_current_cost_pounds(cost, readings) == readings * cost

compute_current_cost(cost, readings) == (readings * cost) * PenceFactor

Pow10(n) == IF n = 0 THEN 1 ELSE IF n = 1 THEN 10 ELSE IF n = 2 THEN 100
            ELSE IF n = 3 THEN 1000 ELSE IF n = 4 THEN 10000 ELSE 100000

\* amounts are kept in 10^-5 pence
MoneyDigits == 5

\* np.around(x, decimals): to the nearest 10^-decimals, ties to even.
around(x, decimals) ==
  LET step == Pow10(MoneyDigits - decimals)
      q == x \div step
      r == x % step
  IN IF 2 * r < step THEN q * step
     ELSE IF 2 * r > step THEN (q + 1) * step
     ELSE IF q % 2 = 0 THEN q * step ELSE (q + 1) * step

\* variant: the rows of an earlier call are kept
StaleCostDf == cost_df

\* pd.DataFrame(columns=[...]): a fresh frame without rows
EmptyCostDf == <<>>

\* cost_df.loc[label] = row: overwrite the row of that label, else enlarge.
loc_set(cdf, label, row) ==
  IF \E i \in 1..Len(cdf) : cdf[i].idx = label
  THEN [i \in 1..Len(cdf) |->
          IF cdf[i].idx = label THEN [row EXCEPT !.idx = label] ELSE cdf[i]]
  ELSE Append(cdf, [row EXCEPT !.idx = label])

\* cost_df.index = cost_df.index + 1
shift_index(cdf) == [i \in 1..Len(cdf) |-> [cdf[i] EXCEPT !.idx = @ + 1]]

RECURSIVE InsertSorted(_, _)
InsertSorted(sorted, row) ==
  IF sorted = <<>> THEN <<row>>
  ELSE IF Head(sorted).idx <= row.idx
       THEN <<Head(sorted)>> \o InsertSorted(Tail(sorted), row)
       ELSE <<row>> \o sorted

RECURSIVE sort_index(_)
\* cost_df.sort_index(): ascending by label
sort_index(cdf) ==
  IF cdf = <<>> THEN <<>>
  ELSE InsertSorted(sort_index(SubSeq(cdf, 1, Len(cdf) - 1)), cdf[Len(cdf)])

\* variant: the labels are not moved up after the insertion
add_row_no_shift(cdf, row) == sort_index(loc_set(cdf, NewRowLabel, row))

\* lines 199-201 of compute_costs
add_row(cdf, row) == sort_index(shift_index(loc_set(cdf, NewRowLabel, row)))

CostRow(meter_id, mo, currentCost, savedCost) ==
  [idx |-> 0, meter_id |-> meter_id, month |-> mo, year |-> YEAR,
   cost |-> around(currentCost, Decimals), saved |-> around(savedCost, Decimals)]

(***************************************************************************)
(* The program                                                             *)
(***************************************************************************)
Init ==
  /\ \E rows \in Files : df = read_csv(rows)
  /\ pc = "remove_negative_readings"
  /\ cost_df = <<>>
  /\ meter_id_series = <<>>
  /\ mi = 1
  /\ meter_df = <<>>
  /\ month = FirstMonth
  /\ month_readings = <<>>
  /\ night_readings = <<>>
  /\ day_readings = <<>>
  /\ runs = 1
  /\ first_out = <<>>
  /\ first_df = <<>>

\* main, line 217
RemoveNegative ==
  /\ pc = "remove_negative_readings"
  /\ df' = remove_negative_readings(df)
  /\ pc' = "remove_duplicates"
  /\ UNCHANGED <<cost_df, meter_id_series, mi, meter_df, month,
                 month_readings, night_readings, day_readings, runs, first_out, first_df>>

\* main, line 218
RemoveDuplicates ==
  /\ pc = "remove_duplicates"
  /\ df' = remove_duplicates(df)
  /\ pc' = "compute_costs"
  /\ UNCHANGED <<cost_df, meter_id_series, mi, meter_df, month,
                 month_readings, night_readings, day_readings, runs, first_out, first_df>>

\* compute_costs, lines 144-148
EnterComputeCosts ==
  /\ pc = "compute_costs"
  /\ cost_df' = EmptyCostDf
  /\ meter_id_series' = unique(df)
  /\ mi' = 1
  /\ pc' = "meter_loop"
  /\ UNCHANGED <<df, meter_df, month, month_readings, night_readings,
                 day_readings, runs, first_out, first_df>>

\* compute_costs, lines 150-153: the next meter of the outer loop
NextMeter ==
  /\ pc = "meter_loop"
  /\ mi <= Len(meter_id_series)
  /\ meter_df' = get_meter_data(df, meter_id_series[mi])
  /\ month' = FirstMonth
  /\ pc' = "month_loop"
  /\ UNCHANGED <<df, cost_df, meter_id_series, mi, month_readings,
                 night_readings, day_readings, runs, first_out, first_df>>

\* compute_costs, lines 155-163: a month with no reading is skipped
SkipMonth ==
  /\ pc = "month_loop"
  /\ month < EndMonth
  /\ get_monthly_readings(meter_df, YEAR, month) = <<>>
  /\ month_readings' = <<>>
  /\ month' = month + 1
  /\ UNCHANGED <<pc, df, cost_df, meter_id_series, mi, meter_df,
                 night_readings, day_readings, runs, first_out, first_df>>

\* compute_costs, lines 155-166: a month with readings
SelectMonth ==
  /\ pc = "month_loop"
  /\ month < EndMonth
  /\ get_monthly_readings(meter_df, YEAR, month) # <<>>
  /\ month_readings' = get_monthly_readings(meter_df, YEAR, month)
  /\ pc' = "night_readings"
  /\ UNCHANGED <<df, cost_df, meter_id_series, mi, meter_df, month,
                 night_readings, day_readings, runs, first_out, first_df>>

\* compute_costs, lines 169-173; the callee re-labels month_readings
SelectNight ==
  /\ pc = "night_readings"
  /\ month_readings' = set_DateTime_index(month_readings)
  /\ night_readings' = get_time_range_readings(month_readings, NightStart, NightEnd)
  /\ pc' = "day_readings"
  /\ UNCHANGED <<df, cost_df, meter_id_series, mi, meter_df, month,
                 day_readings, runs, first_out, first_df>>

\* compute_costs, lines 174-178
SelectDay ==
  /\ pc = "day_readings"
  /\ month_readings' = set_DateTime_index(month_readings)
  /\ day_readings' = get_time_range_readings(month_readings, DayStart, DayEnd)
  /\ pc' = "add_row"
  /\ UNCHANGED <<df, cost_df, meter_id_series, mi, meter_df, month,
                 night_readings, runs, first_out, first_df>>

\* compute_costs, lines 166 and 180-201
AddRow ==
  /\ pc = "add_row"
  /\ LET month_consumption == SumKwh(month_readings)
         currentCost == compute_current_cost(FLAT_RATE, month_consumption)
         economyCost == compute_current_cost(FLAT_RATE, SumKwh(day_readings))
                        + compute_current_cost(ECONOMY, SumKwh(night_readings))
         savedCost == currentCost - economyCost
     IN cost_df' = add_row(cost_df,
                           CostRow(meter_id_series[mi], month, currentCost, savedCost))
  /\ month' = month + 1
  /\ pc' = "month_loop"
  /\ UNCHANGED <<df, meter_id_series, mi, meter_df, month_readings,
                 night_readings, day_readings, runs, first_out, first_df>>

\* compute_costs, line 155: range(1, 13) is exhausted
EndMonths ==
  /\ pc = "month_loop"
  /\ month = EndMonth
  /\ mi' = mi + 1
  /\ pc' = "meter_loop"
  /\ UNCHANGED <<df, cost_df, meter_id_series, meter_df, month,
                 month_readings, night_readings, day_readings, runs, first_out, first_df>>

\* compute_costs, line 203
Return ==
  /\ pc = "meter_loop"
  /\ mi > Len(meter_id_series)
  /\ pc' = "done"
  /\ UNCHANGED <<df, cost_df, meter_id_series, mi, meter_df, month,
                 month_readings, night_readings, day_readings, runs, first_out, first_df>>

Next ==
  \/ RemoveNegative
  \/ RemoveDuplicates
  \/ EnterComputeCosts
  \/ NextMeter
  \/ SkipMonth
  \/ SelectMonth
  \/ SelectNight
  \/ SelectDay
  \/ AddRow
  \/ EndMonths
  \/ Return

Spec == Init /\ [][Next]_vars

(***************************************************************************)
(* Calling compute_costs a second time                                     *)
(***************************************************************************)
\* the frame as pd.read_csv would label it
reset_index(d) == [i \in 1..Len(d) |-> [d[i] EXCEPT !.idx = RangeLabel(i - 1)]]

\* compute_costs(df) is called again on the frame the first call was given
Rerun ==
  /\ pc = "done"
  /\ runs = 1
  /\ first_out' = cost_df
  /\ first_df' = df
  /\ runs' = 2
  /\ pc' = "compute_costs"
  /\ UNCHANGED <<df, cost_df, meter_id_series, mi, meter_df, month,
                 month_readings, night_readings, day_readings>>

\* compute_costs is called again on the input without its non-2013 readings
RerunOnly2013 ==
  /\ pc = "done"
  /\ runs = 1
  /\ first_out' = cost_df
  /\ first_df' = df
  /\ df' = reset_index(SelectSeq(df, LAMBDA r : r.DateTime.year = YEAR))
  /\ runs' = 2
  /\ pc' = "compute_costs"
  /\ UNCHANGED <<cost_df, meter_id_series, mi, meter_df, month,
                 month_readings, night_readings, day_readings>>

SpecTwice == Init /\ [][Next \/ Rerun]_vars

SpecYear == Init /\ [][Next \/ RerunOnly2013]_vars

(***************************************************************************)
(* Vocabulary of the properties                                            *)
(***************************************************************************)
Clock(d) == <<d.hour, d.minute>>

ClockLe(a, b) == a[1] < b[1] \/ (a[1] = b[1] /\ a[2] <= b[2])

\* the inclusive window [s, e]; it wraps midnight when s is after e
InWindow(d, s, e) ==
  IF ClockLe(s, e)
  THEN ClockLe(s, Clock(d)) /\ ClockLe(Clock(d), e)
  ELSE ClockLe(s, Clock(d)) \/ ClockLe(Clock(d), e)

\* [23:00, 24:00) together with [00:00, 06:00]
InNight(d) == d.hour = 23 \/ d.hour < 6 \/ (d.hour = 6 /\ d.minute = 0)

\* [06:00, 23:00]
InDay(d) == (6 <= d.hour /\ d.hour < 23) \/ (d.hour = 23 /\ d.minute = 0)

Clocks == { <<0, 30>>, <<6, 0>>, <<12, 0>>, <<23, 0>>, <<23, 30>> }

Months == FirstMonth..(EndMonth - 1)

\* the readings of the input that belong to (meter, month) of 2013
Group(d, m, mo) ==
  SelectSeq(d, LAMBDA r : r.meter_id = m /\ r.DateTime.year = 2013
                          /\ r.DateTime.month = mo)

Columns(d) == [i \in 1..Len(d) |-> Reading(d[i].meter_id, d[i].DateTime, d[i].consumption_kwh)]

Occurs(r, d) == \E j \in 1..Len(d) : SameColumns(d[j], r)

Record(c) == <<c.meter_id, c.month, c.year, c.cost, c.saved>>

Records(cdf) == [i \in 1..Len(cdf) |-> Record(cdf[i])]

Abs(x) == IF x < 0 THEN -x ELSE x

\* y is x rounded to two decimals of a penny (1000 units), ties to even
RoundedTo2(x, y) ==
  /\ y % 1000 = 0
  /\ 2 * Abs(y - x) <= 1000
  /\ (2 * Abs(y - x) = 1000 => (y \div 1000) % 2 = 0)

FlatCost(g) == SumKwh(g) * FLAT_RATE * 100

SplitCost(g) ==
  SumKwh(SelectSeq(g, LAMBDA r : InDay(r.DateTime))) * FLAT_RATE * 100
  + SumKwh(SelectSeq(g, LAMBDA r : InNight(r.DateTime))) * ECONOMY * 100

Sanitized == pc \notin {"remove_negative_readings", "remove_duplicates"}

\* position of a meter in the order of first appearance
MeterRank(m) == CHOOSE i \in 1..Len(meter_id_series) : meter_id_series[i] = m

ProducedBefore(a, b) ==
  \/ MeterRank(a.meter_id) < MeterRank(b.meter_id)
  \/ (a.meter_id = b.meter_id /\ a.month < b.month)

ScenarioRows ==
  << Reading("A", DT(2013, 1, 5, 0, 30), 2000),
     Reading("A", DT(2013, 1, 5, 12, 0), 3000),
     Reading("A", DT(2013, 1, 6, 23, 30), 1000) >>

(***************************************************************************)
(* Properties                                                              *)
(***************************************************************************)

\* C1: once both windows of a (meter, month) group are selected, every
\* reading of the group is in exactly one of night_readings and
\* day_readings, so their lengths add up to that of month_readings.
C1_PartitionComplete ==
  pc = "add_row" =>
    /\ Len(night_readings) + Len(day_readings) = Len(month_readings)
    /\ \A i \in 1..Len(month_readings) :
         Occurs(month_readings[i], night_readings)
           # Occurs(month_readings[i], day_readings)

\* C2: the returned records are in the order they were produced: meters in
\* order of first appearance, months ascending within a meter.
C2_OutputInProductionOrder ==
  pc = "done" =>
    \A i, j \in 1..Len(cost_df) :
      i < j => ProducedBefore(cost_df[i], cost_df[j])

\* C3: a record whose group has a reading with non-zero consumption in the
\* night window has saved cost >= 0.
C3_SavedNonNegative ==
  Sanitized =>
    \A i \in 1..Len(cost_df) :
      LET g == Group(df, cost_df[i].meter_id, cost_df[i].month)
      IN (\E k \in 1..Len(g) : InNight(g[k].DateTime) /\ g[k].consumption_kwh # 0)
           => cost_df[i].saved >= 0

\* C4: a record whose group lies entirely in the day window 06:00-23:00
\* (ends included) has saved cost 0.
C4_AllDaySavesNothing ==
  Sanitized =>
    \A i \in 1..Len(cost_df) :
      LET g == Group(df, cost_df[i].meter_id, cost_df[i].month)
      IN (\A k \in 1..Len(g) : InDay(g[k].DateTime)) => cost_df[i].saved = 0

\* C5: on return there is exactly one record for each (meter, month) that
\* has a 2013 reading in the input, and none for any other pair.
C5_OneRecordPerMeterMonth ==
  pc = "done" =>
    /\ \A i \in 1..Len(cost_df) :
         cost_df[i].meter_id \in Meters /\ cost_df[i].month \in Months
    /\ \A m \in Meters, mo \in Months :
         Cardinality({ i \in 1..Len(cost_df) :
                        cost_df[i].meter_id = m /\ cost_df[i].month = mo })
           = IF Group(df, m, mo) # <<>> THEN 1 ELSE 0

C5_Witness ==
  /\ pc = "done"
  /\ Len(cost_df) = 2
  /\ \E m \in Meters, mo \in Months : Len(Group(df, m, mo)) = 2
  /\ \E m \in Meters : Group(df, m, 1) = <<>> /\ get_meter_data(df, m) # <<>>

\* C6: the selector returns exactly the readings whose time of day lies in
\* the inclusive window, wrapping midnight when start is after end; the
\* night readings are those in [23:00, 24:00) or [00:00, 06:00], readings at
\* exactly 23:00 and 06:00 included; an empty input gives an empty output.
C6_WindowSelection ==
  /\ \A s \in Clocks, e \in Clocks :
       Columns(get_time_range_readings(month_readings, s, e))
         = Columns(SelectSeq(month_readings, LAMBDA r : InWindow(r.DateTime, s, e)))
  /\ pc \in {"day_readings", "add_row"} =>
       Columns(night_readings)
         = Columns(SelectSeq(month_readings, LAMBDA r : InNight(r.DateTime)))
  /\ pc = "add_row" =>
       Columns(day_readings)
         = Columns(SelectSeq(month_readings, LAMBDA r : InDay(r.DateTime)))
  /\ \A s \in Clocks, e \in Clocks : get_time_range_readings(<<>>, s, e) = <<>>

C6_Witness ==
  /\ pc = "add_row"
  /\ \E i \in 1..Len(night_readings) : Clock(night_readings[i].DateTime) = <<23, 0>>
  /\ \E i \in 1..Len(night_readings) : Clock(night_readings[i].DateTime) = <<6, 0>>
  /\ Len(night_readings) < Len(month_readings)

\* C7 as stated: cost is exactly the flat cost of the group and saved cost
\* exactly the flat cost minus the split cost.
C7_CostFormulaExact ==
  Sanitized =>
    \A i \in 1..Len(cost_df) :
      LET g == Group(df, cost_df[i].meter_id, cost_df[i].month)
      IN /\ cost_df[i].cost = FlatCost(g)
         /\ cost_df[i].saved = FlatCost(g) - SplitCost(g)

\* C7 (amended): cost is the flat cost of the group rounded to 2 decimals
\* and saved cost is flat cost minus split cost (day readings at FLAT_RATE,
\* night readings at ECONOMY) rounded to 2 decimals; the January scenario
\* of meter A yields the single record (A, 1, 2013, 90.00, 12.00).
C7_CostFormulaRounded ==
  Sanitized =>
    /\ \A i \in 1..Len(cost_df) :
         LET g == Group(df, cost_df[i].meter_id, cost_df[i].month)
         IN /\ RoundedTo2(FlatCost(g), cost_df[i].cost)
            /\ RoundedTo2(FlatCost(g) - SplitCost(g), cost_df[i].saved)
    /\ (pc = "done" /\ Columns(df) = ScenarioRows) =>
         Records(cost_df) = << <<"A", 1, 2013, 9000000, 1200000>> >>

C7_Witness ==
  /\ pc = "done"
  /\ Columns(df) = ScenarioRows
  /\ Len(cost_df) = 1

\* C8: a second call of compute_costs on the same input returns the same
\* sequence of records as the first, and the input is as the first call
\* received it.
C8_Idempotent ==
  (pc = "done" /\ runs = 2) => (cost_df = first_out /\ df = first_df)

C8_Witness ==
  /\ pc = "done"
  /\ runs = 2
  /\ Len(cost_df) >= 2
  /\ first_out = cost_df

\* C9: after the night-window call month_readings is what it was before the
\* call: same rows, same row labels, same order.
C9_SelectorLeavesInputUnchanged ==
  pc = "day_readings" =>
    month_readings = get_monthly_readings(meter_df, YEAR, month)

\* C10 as stated: every record has year 2013 and removing the non-2013
\* readings from the input leaves the returned sequence unchanged.
C10_OutputUnchanged ==
  /\ \A i \in 1..Len(cost_df) : cost_df[i].year = 2013
  /\ (pc = "done" /\ runs = 2) => Records(cost_df) = Records(first_out)

\* C10 (amended): every record has year 2013; removing the non-2013
\* readings from the input leaves the set of returned records unchanged
\* (their order may differ); a meter with no 2013 reading has no record.
C10_YearScoping ==
  /\ \A i \in 1..Len(cost_df) : cost_df[i].year = 2013
  /\ (pc = "done" /\ runs = 2) =>
       /\ { Record(cost_df[i]) : i \in 1..Len(cost_df) }
            = { Record(first_out[i]) : i \in 1..Len(first_out) }
       /\ Len(cost_df) = Len(first_out)
  /\ pc = "done" =>
       \A m \in Meters :
         (\A k \in 1..Len(df) : df[k].meter_id = m => df[k].DateTime.year # 2013)
           => \A i \in 1..Len(cost_df) : cost_df[i].meter_id # m

C10_Witness ==
  /\ pc = "done"
  /\ runs = 2
  /\ Len(df) < Len(first_df)
  /\ cost_df # <<>>
  /\ \E m \in Meters : get_meter_data(first_df, m) # <<>> /\ get_meter_data(df, m) = <<>>

====
